---- MODULE Spec2Model ----
(***************************************************************************)
(* Campus event management service (src/main.py): four tables kept in a    *)
(* SQLite store and the request handlers that write and query them.        *)
(* Every handler runs in its own session and commits through the store,    *)
(* which serialises the commits, so that one handler is one step.          *)
(*                                                                         *)
(* Columns that no handler ever reads back in a condition or an aggregate  *)
(* (College.name, Student.name, Event.name, Event.date,                    *)
(* Registration.registered_at) are left out of the rows.  The store is     *)
(* SQLite as create_engine opens it: UNIQUE constraints are enforced,      *)
(* FOREIGN KEY clauses are not.  The endpoints that only list rows         *)
(* (list_events, flexible_events, student_participation, /debug) are not   *)
(* modelled.                                                               *)
(***************************************************************************)
EXTENDS Integers, Sequences, FiniteSets, TLC

\* ------------------------------------------------------------- bounds
\* The clock starts at 1 and every request that commits advances it: a run
\* holds at most MaxTime committing requests (a request that is refused before
\* it commits, or that only reads, is not counted).
MaxTime == 4

\* ---------------------------------------------------- program constants
\* None of a nullable column (attended_at, feedback_rating)
NULL == 0
MinRating == 1
MaxRating == 5
\* .limit(3) of top_active_students
TopLimit == 3

Types == {"Workshop", "Fest"}
\* request inputs: the ids a request may name (rows with these ids may or may not
\* be stored when it is made), and the ratings on both sides of the range check
StudentIds == 1..2
EventIds == 1..2
RegIds == 1..3
CollegeIds == {1}
Ratings == {MinRating - 1, MinRating, MaxRating, MaxRating + 1}

VARIABLES
    colleges,       \* number of rows of table colleges (ids 1..colleges)
    students,       \* table students: sequence of rows, id = index
    events,         \* table events: sequence of rows, id = index
    registrations,  \* table registrations: sequence of rows, id = index
    now,            \* datetime.utcnow(), as a logical clock
    resp,           \* the last HTTP response: status and body
    everAttended    \* history: ids of registrations written with attended = TRUE

vars == <<colleges, students, events, registrations, now, resp, everAttended>>

\* ------------------------------------------------------------- helpers
NoBody == [kind |-> "none"]

\* HTTPException(status, detail); an exception no handler catches is a 500
Error(detail) == [kind |-> "error", detail |-> detail]

Response(status, body) == [status |-> status, body |-> body]

EventRow(type, college_id) ==
    [type |-> type, college_id |-> college_id, cancelled |-> FALSE]

RegistrationRow(student_id, event_id, attended) ==
    [student_id |-> student_id, event_id |-> event_id, attended |-> attended,
     attended_at |-> NULL, feedback_rating |-> NULL]

StudentRow(email, college_id) == [email |-> email, college_id |-> college_id]

\* UniqueConstraint('student_id', 'event_id'): would inserting the pair violate it
PairExists(regs, student_id, event_id) ==
    \E i \in 1..Len(regs) :
        regs[i].student_id = student_id /\ regs[i].event_id = event_id

\* Student.email unique=True
EmailExists(email) == \E i \in 1..Len(students) : students[i].email = email

Init ==
    /\ colleges = 0
    /\ students = <<>>
    /\ events = <<>>
    /\ registrations = <<>>
    /\ now = 1
    /\ resp = Response(0, NoBody)
    /\ everAttended = {}

\* ------------------------------------------------------------ handlers
\* POST /events
create_event(type, college_id) ==
    /\ now <= MaxTime
    /\ events' = Append(events, EventRow(type, college_id))
    /\ now' = now + 1
    /\ resp' = Response(200, [kind |-> "event", id |-> Len(events) + 1,
                              row |-> EventRow(type, college_id)])
    /\ UNCHANGED <<colleges, students, registrations, everAttended>>

\* update_event_cancelled, had it also dropped the registrations of an event it
\* cancels
update_event_cancelled_Cascade(event_id, cancelled) ==
    IF event_id \notin 1..Len(events)
    THEN /\ resp' = Response(404, Error("Event not found"))
         /\ UNCHANGED <<colleges, students, events, registrations, now, everAttended>>
    ELSE /\ now <= MaxTime
         /\ events' = [events EXCEPT ![event_id].cancelled = cancelled]
         /\ registrations' =
                IF cancelled
                THEN SelectSeq(registrations, LAMBDA r : r.event_id # event_id)
                ELSE registrations
         /\ now' = now + 1
         /\ resp' = Response(200, [kind |-> "event", id |-> event_id,
                                   row |-> events'[event_id]])
         /\ UNCHANGED <<colleges, students, everAttended>>

\* PATCH /events/{event_id}
update_event_cancelled(event_id, cancelled) ==
    IF event_id \notin 1..Len(events)
    THEN /\ resp' = Response(404, Error("Event not found"))
         /\ UNCHANGED <<colleges, students, events, registrations, now, everAttended>>
    ELSE /\ now <= MaxTime
         /\ events' = [events EXCEPT ![event_id].cancelled = cancelled]
         /\ now' = now + 1
         /\ resp' = Response(200, [kind |-> "event", id |-> event_id,
                                   row |-> events'[event_id]])
         /\ UNCHANGED <<colleges, students, registrations, everAttended>>

\* register_student, had the table no UniqueConstraint
register_student_NoConstraint(student_id, event_id) ==
    /\ now <= MaxTime
    /\ registrations' =
           Append(registrations, RegistrationRow(student_id, event_id, FALSE))
    /\ now' = now + 1
    /\ resp' = Response(200, [kind |-> "registration",
                              id |-> Len(registrations) + 1,
                              row |-> RegistrationRow(student_id, event_id, FALSE)])
    /\ UNCHANGED <<colleges, students, events, everAttended>>

\* POST /registrations
register_student(student_id, event_id) ==
    IF PairExists(registrations, student_id, event_id)
    THEN /\ resp' = Response(409, Error("Duplicate registration"))
         /\ UNCHANGED <<colleges, students, events, registrations, now, everAttended>>
    ELSE /\ now <= MaxTime
         /\ registrations' =
                Append(registrations, RegistrationRow(student_id, event_id, FALSE))
         /\ now' = now + 1
         /\ resp' = Response(200, [kind |-> "registration",
                                   id |-> Len(registrations) + 1,
                                   row |-> RegistrationRow(student_id, event_id, FALSE)])
         /\ UNCHANGED <<colleges, students, events, everAttended>>

\* mark_attendance, had it cleared attended_at when attendance is taken back
mark_attendance_Clears(reg_id, attended) ==
    IF reg_id \notin 1..Len(registrations)
    THEN /\ resp' = Response(404, Error("Registration not found"))
         /\ UNCHANGED <<colleges, students, events, registrations, now, everAttended>>
    ELSE /\ now <= MaxTime
         /\ registrations' =
                [registrations EXCEPT
                    ![reg_id].attended = attended,
                    ![reg_id].attended_at = IF attended THEN now ELSE NULL]
         /\ everAttended' = IF attended THEN everAttended \cup {reg_id}
                                        ELSE everAttended
         /\ now' = now + 1
         /\ resp' = Response(200, [kind |-> "registration", id |-> reg_id,
                                   row |-> registrations'[reg_id]])
         /\ UNCHANGED <<colleges, students, events>>

\* PATCH /registrations/{reg_id}
mark_attendance(reg_id, attended) ==
    IF reg_id \notin 1..Len(registrations)
    THEN /\ resp' = Response(404, Error("Registration not found"))
         /\ UNCHANGED <<colleges, students, events, registrations, now, everAttended>>
    ELSE /\ now <= MaxTime
         /\ registrations' =
                [registrations EXCEPT
                    ![reg_id].attended = attended,
                    ![reg_id].attended_at = IF attended THEN now ELSE @]
         /\ everAttended' = IF attended THEN everAttended \cup {reg_id}
                                        ELSE everAttended
         /\ now' = now + 1
         /\ resp' = Response(200, [kind |-> "registration", id |-> reg_id,
                                   row |-> registrations'[reg_id]])
         /\ UNCHANGED <<colleges, students, events>>

\* collect_feedback, had its range check been 1 < rating <= 5
collect_feedback_OffByOne(reg_id, rating) ==
    IF ~(MinRating < rating /\ rating <= MaxRating)
    THEN /\ resp' = Response(400, Error("Rating must be 1-5"))
         /\ UNCHANGED <<colleges, students, events, registrations, now, everAttended>>
    ELSE IF reg_id \notin 1..Len(registrations)
    THEN /\ resp' = Response(404, Error("Registration not found"))
         /\ UNCHANGED <<colleges, students, events, registrations, now, everAttended>>
    ELSE IF ~registrations[reg_id].attended
    THEN /\ resp' = Response(400, Error("Cannot feedback without attendance"))
         /\ UNCHANGED <<colleges, students, events, registrations, now, everAttended>>
    ELSE /\ now <= MaxTime
         /\ registrations' = [registrations EXCEPT ![reg_id].feedback_rating = rating]
         /\ now' = now + 1
         /\ resp' = Response(200, [kind |-> "registration", id |-> reg_id,
                                   row |-> registrations'[reg_id]])
         /\ UNCHANGED <<colleges, students, events, everAttended>>

\* PATCH /registrations/{reg_id}/feedback
collect_feedback(reg_id, rating) ==
    IF ~(MinRating <= rating /\ rating <= MaxRating)
    THEN /\ resp' = Response(400, Error("Rating must be 1-5"))
         /\ UNCHANGED <<colleges, students, events, registrations, now, everAttended>>
    ELSE IF reg_id \notin 1..Len(registrations)
    THEN /\ resp' = Response(404, Error("Registration not found"))
         /\ UNCHANGED <<colleges, students, events, registrations, now, everAttended>>
    ELSE IF ~registrations[reg_id].attended
    THEN /\ resp' = Response(400, Error("Cannot feedback without attendance"))
         /\ UNCHANGED <<colleges, students, events, registrations, now, everAttended>>
    ELSE /\ now <= MaxTime
         /\ registrations' = [registrations EXCEPT ![reg_id].feedback_rating = rating]
         /\ now' = now + 1
         /\ resp' = Response(200, [kind |-> "registration", id |-> reg_id,
                                   row |-> registrations'[reg_id]])
         /\ UNCHANGED <<colleges, students, events, everAttended>>

\* POST /seed: four commits in a row; an IntegrityError of a later commit is not
\* caught (500) and leaves the earlier commits in the store.
seed_data ==
    LET college == colleges + 1
        student1 == Len(students) + 1
        student2 == Len(students) + 2
        event1 == Len(events) + 1
        event2 == Len(events) + 2
        regs == << RegistrationRow(student1, event1, TRUE),
                   RegistrationRow(student2, event1, TRUE),
                   RegistrationRow(student1, event2, TRUE) >>
    IN  /\ now <= MaxTime
        /\ now' = now + 1
        /\ colleges' = college
        /\ IF EmailExists("alice@example.com") \/ EmailExists("bob@example.com")
           THEN /\ resp' = Response(500, Error("Internal Server Error"))
                /\ UNCHANGED <<students, events, registrations, everAttended>>
           ELSE /\ students' = students \o << StudentRow("alice@example.com", college),
                                              StudentRow("bob@example.com", college) >>
                /\ events' = events \o << EventRow("Workshop", college),
                                          EventRow("Fest", college) >>
                /\ IF \E i \in 1..3 :
                        PairExists(registrations, regs[i].student_id, regs[i].event_id)
                   THEN /\ resp' = Response(500, Error("Internal Server Error"))
                        /\ UNCHANGED <<registrations, everAttended>>
                   ELSE /\ registrations' = registrations \o regs
                        /\ everAttended' = everAttended \cup
                              { Len(registrations) + i : i \in 1..3 }
                        /\ resp' = Response(200, [kind |-> "message"])

\* ------------------------------------------------------------- reports
RECURSIVE SumRatings(_, _)
SumRatings(regs, ids) ==
    IF ids = {} THEN 0
    ELSE LET i == CHOOSE x \in ids : TRUE
         IN  regs[i].feedback_rating + SumRatings(regs, ids \ {i})

\* A float result, kept exact as numerator over denominator.
Frac(num, den) == [num |-> num, den |-> den]

\* func.avg(Registration.feedback_rating) over the rated rows of the event,
\* None (here: falsy, replaced by 0) when there is none
AvgFeedback(regs, event_id) ==
    LET rated == { i \in 1..Len(regs) :
                     regs[i].event_id = event_id /\ regs[i].feedback_rating # NULL }
    IN  IF rated = {} \/ SumRatings(regs, rated) = 0
        THEN Frac(0, 1)
        ELSE Frac(SumRatings(regs, rated), Cardinality(rated))

\* EventReport, had the attended count left out the event_id filter
EventReport_AttendedAnywhere(regs, event_id) ==
    LET total_regs == Cardinality({ i \in 1..Len(regs) : regs[i].event_id = event_id })
        attended == Cardinality({ i \in 1..Len(regs) : regs[i].attended = TRUE })
    IN  [kind |-> "event_report",
         event_id |-> event_id,
         total_registrations |-> total_regs,
         attendance_percentage |->
            IF total_regs > 0 THEN Frac(attended * 100, total_regs) ELSE Frac(0, 1),
         average_feedback |-> AvgFeedback(regs, event_id)]

\* GET /reports/event/{event_id}
EventReport(regs, event_id) ==
    LET total_regs == Cardinality({ i \in 1..Len(regs) : regs[i].event_id = event_id })
        attended == Cardinality({ i \in 1..Len(regs) :
                                    regs[i].event_id = event_id /\ regs[i].attended = TRUE })
    IN  [kind |-> "event_report",
         event_id |-> event_id,
         total_registrations |-> total_regs,
         attendance_percentage |->
            IF total_regs > 0 THEN Frac(attended * 100, total_regs) ELSE Frac(0, 1),
         average_feedback |-> AvgFeedback(regs, event_id)]

event_report(event_id) ==
    /\ resp' = Response(200, EventReport(registrations, event_id))
    /\ UNCHANGED <<colleges, students, events, registrations, now, everAttended>>

\* An Optional query parameter is the empty set (absent) or {value}. The
\* handlers test it with `if type:` and `if college_id:`, which an empty string
\* and 0 fail just as None does.
TruthyStr(opt) == \E v \in opt : v # ""

TruthyInt(opt) == \E v \in opt : v # 0

\* .order_by(count.desc()).all(): every listing of the ids S by non-increasing
\* key (a function on S); the store is free in the order of ties
RECURSIVE DescOrders(_, _)
DescOrders(S, key) ==
    IF S = {} THEN { <<>> }
    ELSE UNION { { <<x>> \o p : p \in DescOrders(S \ {x}, key) } :
                 x \in { y \in S : \A z \in S : key[y] >= key[z] } }

\* .limit(n)
Limit(seq, n) == SubSeq(seq, 1, IF Len(seq) < n THEN Len(seq) ELSE n)

\* GET /reports/event-popularity: the possible results
EventPopularity(type, college_id) ==
    LET Regs(e) == Cardinality({ i \in 1..Len(registrations) :
                                    registrations[i].event_id = e })
        listed == { e \in 1..Len(events) :
                      /\ events[e].cancelled = FALSE
                      /\ TruthyStr(type) => events[e].type \in type
                      /\ TruthyInt(college_id) => events[e].college_id \in college_id }
    IN  { [ i \in 1..Len(p) |-> [event_id |-> p[i], registrations |-> Regs(p[i])] ] :
          p \in DescOrders(listed, [e \in listed |-> Regs(e)]) }

event_popularity(type, college_id) ==
    /\ \E rows \in EventPopularity(type, college_id) :
          resp' = Response(200, [kind |-> "event_popularity", type |-> type,
                                 college_id |-> college_id, rows |-> rows])
    /\ UNCHANGED <<colleges, students, events, registrations, now, everAttended>>

\* GET /reports/top-active-students: the possible results
TopActiveStudents(college_id) ==
    LET Attendances(s) == Cardinality({ i \in 1..Len(registrations) :
                                          /\ registrations[i].student_id = s
                                          /\ registrations[i].attended = TRUE })
        joined == { s \in 1..Len(students) :
                      /\ Attendances(s) > 0
                      /\ TruthyInt(college_id) => students[s].college_id \in college_id }
    IN  { [ i \in 1..Len(Limit(p, TopLimit)) |->
                [student_id |-> p[i], attendances |-> Attendances(p[i])] ] :
          p \in DescOrders(joined, [s \in joined |-> Attendances(s)]) }

top_active_students(college_id) ==
    /\ \E rows \in TopActiveStudents(college_id) :
          resp' = Response(200, [kind |-> "top_active_students",
                                 college_id |-> college_id, rows |-> rows])
    /\ UNCHANGED <<colleges, students, events, registrations, now, everAttended>>

\* query parameters: absent, an empty or zero value, a value
TypeFilters == { {}, {""} } \cup { {t} : t \in Types }
CollegeFilters == { {}, {0}, {1}, {2} }

\* The handlers that write, and the report of one event.
Next ==
    \/ \E t \in Types, c \in CollegeIds : create_event(t, c)
    \/ \E e \in EventIds, c \in BOOLEAN : update_event_cancelled(e, c)
    \/ \E s \in StudentIds, e \in EventIds : register_student(s, e)
    \/ \E r \in RegIds, a \in BOOLEAN : mark_attendance(r, a)
    \/ \E r \in RegIds, g \in Ratings : collect_feedback(r, g)
    \/ seed_data
    \/ \E e \in EventIds : event_report(e)

Spec == Init /\ [][Next]_vars

\* The same with the two ranking reports, which write nothing.
NextReports ==
    \/ Next
    \/ \E c \in CollegeFilters, t \in TypeFilters : event_popularity(t, c)
    \/ \E c \in CollegeFilters : top_active_students(c)

SpecReports == Init /\ [][NextReports]_vars

\* ------------------------------------------------------------ properties
UniquePairs(regs) ==
    \A i, j \in 1..Len(regs) :
        (regs[i].student_id = regs[j].student_id /\ regs[i].event_id = regs[j].event_id)
            => i = j

RowsOfPair(regs, s, e) ==
    { i \in 1..Len(regs) : regs[i].student_id = s /\ regs[i].event_id = e }

\* C1: no state holds two registrations of one (student_id, event_id) pair; a
\* register_student for a pair that has no row answers 200 and adds exactly the
\* row of that pair, and one for a pair that has a row answers 409 (Duplicate
\* registration) and leaves the table as it was.
C1_RegisterOnce ==
    /\ UniquePairs(registrations)
    /\ [][ /\ UniquePairs(registrations')
           /\ \A s \in StudentIds, e \in EventIds :
                register_student(s, e) =>
                    IF RowsOfPair(registrations, s, e) # {}
                    THEN /\ resp'.status = 409
                         /\ registrations' = registrations
                    ELSE /\ resp'.status = 200
                         /\ Len(registrations') = Len(registrations) + 1
                         /\ SubSeq(registrations', 1, Len(registrations)) = registrations
                         /\ RowsOfPair(registrations', s, e) = {Len(registrations')}
         ]_vars

\* C1 witness: a duplicate was just refused while the table holds several pairs
C1_Witness ==
    /\ resp.status = 409
    /\ Len(registrations) >= 2

\* C2: collect_feedback(reg_id, rating) answers 400 for a rating outside 1..5
\* whatever the row, else 404 for an absent registration, else 400 for a row with
\* attended = FALSE, and in these three cases leaves the table as it was; only
\* with a rating in 1..5 on an existing row with attended = TRUE does it set
\* feedback_rating to the rating (and nothing else) and answer 200.
C2_FeedbackContract ==
    [][ \A r \in RegIds, g \in Ratings :
            collect_feedback(r, g) =>
                IF ~(g \in 1..5)
                THEN /\ resp' = Response(400, Error("Rating must be 1-5"))
                     /\ registrations' = registrations
                ELSE IF r \notin 1..Len(registrations)
                THEN /\ resp'.status = 404
                     /\ registrations' = registrations
                ELSE IF registrations[r].attended = FALSE
                THEN /\ resp' = Response(400, Error("Cannot feedback without attendance"))
                     /\ registrations' = registrations
                ELSE /\ resp'.status = 200
                     /\ Len(registrations') = Len(registrations)
                     /\ registrations'[r].feedback_rating = g
                     /\ \A i \in 1..Len(registrations) :
                            /\ registrations'[i].student_id = registrations[i].student_id
                            /\ registrations'[i].event_id = registrations[i].event_id
                            /\ registrations'[i].attended = registrations[i].attended
                            /\ registrations'[i].attended_at = registrations[i].attended_at
                            /\ i # r => registrations'[i].feedback_rating =
                                            registrations[i].feedback_rating
      ]_vars

\* C2 witness: a rated registration exists and a rating in range was just refused
\* because the addressed registration has attended = FALSE
C2_Witness ==
    /\ resp = Response(400, Error("Cannot feedback without attendance"))
    /\ \E i \in 1..Len(registrations) : registrations[i].feedback_rating # NULL

\* C3 as claimed: in every state, every registration with a feedback_rating has
\* attended = TRUE.
C3_FeedbackImpliesAttended ==
    \A i \in 1..Len(registrations) :
        registrations[i].feedback_rating # NULL => registrations[i].attended = TRUE

\* C4: mark_attendance on an absent registration answers 404 and changes no row;
\* on an existing one with attended = TRUE it leaves the row with attended = TRUE
\* and a non-null attended_at, with attended = FALSE it leaves the row with
\* attended = FALSE and attended_at as it was before the request; no other row
\* and no other column changes.
C4_MarkAttendance ==
    [][ \A r \in RegIds, a \in BOOLEAN :
            mark_attendance(r, a) =>
                IF r \notin 1..Len(registrations)
                THEN /\ resp'.status = 404
                     /\ registrations' = registrations
                ELSE /\ resp'.status = 200
                     /\ Len(registrations') = Len(registrations)
                     /\ registrations'[r].attended = a
                     /\ a => registrations'[r].attended_at # NULL
                     /\ ~a => registrations'[r].attended_at = registrations[r].attended_at
                     /\ \A i \in 1..Len(registrations) :
                            /\ registrations'[i].student_id = registrations[i].student_id
                            /\ registrations'[i].event_id = registrations[i].event_id
                            /\ registrations'[i].feedback_rating =
                                    registrations[i].feedback_rating
                            /\ i # r => registrations'[i] = registrations[i]
      ]_vars

\* C4 witness: attendance was marked and then taken back, and the stamp is still
\* there
C4_Witness ==
    /\ resp.status = 200
    /\ resp.body.kind = "registration"
    /\ resp.body.row.attended = FALSE
    /\ resp.body.row.attended_at # NULL

\* C5 as claimed: attended_at is non-null exactly on the registrations that have
\* been written with attended = TRUE; none has attended = TRUE and no attended_at.
C5_AttendedAtIffEverAttended ==
    \A i \in 1..Len(registrations) :
        /\ registrations[i].attended_at # NULL <=> i \in everAttended
        /\ registrations[i].attended = TRUE => registrations[i].attended_at # NULL

\* C6 as claimed: every student_id and event_id of a registration, and every
\* college_id of an event or a student, is the id of a stored row.
C6_ReferentialIntegrity ==
    /\ \A i \in 1..Len(registrations) :
            /\ registrations[i].student_id \in 1..Len(students)
            /\ registrations[i].event_id \in 1..Len(events)
    /\ \A i \in 1..Len(events) : events[i].college_id \in 1..colleges
    /\ \A i \in 1..Len(students) : students[i].college_id \in 1..colleges

\* C7: update_event_cancelled on an absent event answers 404 and changes no
\* table; on a stored event it sets that event's cancelled flag to the value
\* given, and leaves its other columns, every other event and the registrations,
\* students and colleges as they were.
C7_CancelFrame ==
    [][ \A e \in EventIds, c \in BOOLEAN :
            update_event_cancelled(e, c) =>
                /\ registrations' = registrations
                /\ students' = students
                /\ colleges' = colleges
                /\ IF e \notin 1..Len(events)
                   THEN /\ resp'.status = 404
                        /\ events' = events
                   ELSE /\ resp'.status = 200
                        /\ Len(events') = Len(events)
                        /\ events'[e].cancelled = c
                        /\ events'[e].type = events[e].type
                        /\ events'[e].college_id = events[e].college_id
                        /\ \A i \in 1..Len(events) : i # e => events'[i] = events[i]
      ]_vars

\* C7 witness: an event was just cancelled while another event and registrations
\* of the cancelled event are stored
C7_Witness ==
    /\ resp.status = 200
    /\ resp.body.kind = "event"
    /\ resp.body.row.cancelled = TRUE
    /\ Len(events) >= 2
    /\ \E i \in 1..Len(registrations) : registrations[i].event_id = resp.body.id

\* C10: event_report answers 200; total_registrations is the number of rows of
\* the event; the percentage is attended * 100 / total for an attended count that
\* is at most the total; with no row of the event (whether or not the event
\* exists) the three figures are 0.
C10_EventReport ==
    resp.body.kind = "event_report" =>
        LET e == resp.body.event_id
            rows == { i \in 1..Len(registrations) : registrations[i].event_id = e }
            seen == { i \in rows : registrations[i].attended }
        IN  /\ resp.status = 200
            /\ resp.body.total_registrations = Cardinality(rows)
            /\ resp.body.attendance_percentage.num <=
                   100 * resp.body.attendance_percentage.den
            /\ rows # {} =>
                   resp.body.attendance_percentage =
                       Frac(Cardinality(seen) * 100, Cardinality(rows))
            /\ rows = {} =>
                   /\ resp.body.total_registrations = 0
                   /\ resp.body.attendance_percentage.num = 0
                   /\ resp.body.average_feedback.num = 0

\* C10 witness: the report of an event id that is no stored event and has no
\* registration, asked while other registrations are stored
C10_Witness ==
    /\ resp.body.kind = "event_report"
    /\ resp.body.event_id \notin 1..Len(events)
    /\ resp.body.total_registrations = 0
    /\ Len(registrations) > 0
\* C8 as claimed: event_popularity lists exactly the events that are not
\* cancelled and have the type and the college_id given (when given), each once,
\* each with the number of its registrations, by non-increasing number.
C8_EventPopularity ==
    resp.body.kind = "event_popularity" =>
        LET rows == resp.body.rows
            Matches(e) ==
                /\ events[e].cancelled = FALSE
                /\ \A t \in resp.body.type : events[e].type = t
                /\ \A c \in resp.body.college_id : events[e].college_id = c
        IN  /\ { rows[i].event_id : i \in 1..Len(rows) } =
                   { e \in 1..Len(events) : Matches(e) }
            /\ \A i, j \in 1..Len(rows) : rows[i].event_id = rows[j].event_id => i = j
            /\ \A i \in 1..Len(rows) :
                   rows[i].registrations =
                       Cardinality({ k \in 1..Len(registrations) :
                                       registrations[k].event_id = rows[i].event_id })
            /\ \A i, j \in 1..Len(rows) :
                   i < j => rows[i].registrations >= rows[j].registrations

\* C9 as claimed: top_active_students lists at most 3 students, each once, each a
\* stored student of the college given (when given) with its number of attended
\* registrations, which is at least 1, by non-increasing number; and no student
\* left out who qualifies has more attended registrations than one listed.
C9_TopActiveStudents ==
    resp.body.kind = "top_active_students" =>
        LET rows == resp.body.rows
            Attendances(s) == Cardinality({ k \in 1..Len(registrations) :
                                              /\ registrations[k].student_id = s
                                              /\ registrations[k].attended = TRUE })
            Qualifies(s) ==
                /\ s \in 1..Len(students)
                /\ Attendances(s) >= 1
                /\ \A c \in resp.body.college_id : students[s].college_id = c
            listed == { rows[i].student_id : i \in 1..Len(rows) }
        IN  /\ Len(rows) <= 3
            /\ \A i, j \in 1..Len(rows) : rows[i].student_id = rows[j].student_id => i = j
            /\ \A i \in 1..Len(rows) :
                   /\ Qualifies(rows[i].student_id)
                   /\ rows[i].attendances = Attendances(rows[i].student_id)
            /\ \A i, j \in 1..Len(rows) :
                   i < j => rows[i].attendances >= rows[j].attendances
            /\ \A s \in 1..Len(students) :
                   (Qualifies(s) /\ s \notin listed) =>
                       \A i \in 1..Len(rows) : Attendances(s) <= rows[i].attendances
====
